---- MODULE Spec2Model ----
(***************************************************************************)
(* Live tail broadcast engine of app.py: the join / leave / disconnect     *)
(* Socket.IO handlers, the tail_threads registry guarded by thread_lock,   *)
(* the tail_file_background worker threads, and the send_last_lines        *)
(* backlog snapshot.                                                       *)
(*                                                                         *)
(* Spec is the concurrent system: each handler is one step, each worker    *)
(* thread steps between the points where it takes thread_lock or does      *)
(* I/O.  HistSpec is Spec with two more history variables recorded at each *)
(* join.  SnapSpec runs send_last_lines alone, character by character,     *)
(* over every small file content.                                          *)
(***************************************************************************)
EXTENDS Integers, Sequences, FiniteSets, TLC

\* ------------------------------------------------------------------ bounds
\* Worker threads ever started (joins that reach thread.start()).
MaxWorkers == 2
\* Complete lines appended to the files, in total.
MaxLines == 1
\* SnapSpec: longest file content, in characters.
MaxFileLen == 4
\* SnapSpec: largest requested backlog n (on_join passes 200).
MaxN == 2
\* SnapSpec: the read block of send_last_lines, scaled down from 4096.
block == 2
\* TailSpec: longest file content, in characters.
MaxTailLen == 4
\* LockSpec: worker threads that joins may start.
MaxLockWorkers == 2

\* Rooms are file names; a connection is a Socket.IO sid.
Topics == {"X", "Y"}
Conns == {"A", "B"}

\* SnapSpec alphabet: an ordinary character, the newline, and a form feed,
\* which str.splitlines() treats as a line boundary and readline() does not.
Chars == {"a", "\n", "\f"}

VARIABLES
    tail_threads,  \* registry: room -> id of its entry dict, 0 when absent
    entry,         \* the entry dicts ever created: [stop, file], by id
    wpc,           \* position of each worker thread, by id
    wpos,          \* each worker's file cursor, in lines (0 once closed)
    rooms,         \* Socket.IO room membership: room -> set of connections
    file,          \* number of complete lines in each file
    snapStray,     \* connections sent the snapshot of another one's join
    quiet,         \* room's last subscriber left and no join followed
    replaced,      \* workers whose entry a join replaced while they ran
    sPc, sFile, sN, sSize, sData, sOut,  \* send_last_lines, run alone
    tail,          \* one tail_file_background thread run alone: a record
    lk,            \* thread_lock, and the threads of one room statement by
                   \* statement: a record
    fstat,         \* what each name is on disk: "listed", "gone", "unlisted"
    errs           \* the log_error events published to each room

svars == <<sPc, sFile, sN, sSize, sData, sOut>>
tvars == <<tail, lk>>
\* The fields of tail.
tPc == tail.pc          \* the thread's position
tFile == tail.file      \* the characters of the file
tPos == tail.pos        \* the thread's read offset, in characters
tLine == tail.line      \* the value readline() last returned
tOut == tail.out        \* the log_line events published, in order
tReg == tail.reg        \* the room has a registry entry
tStop == tail.stop      \* the "stop" flag of that entry
tErrs == tail.errs      \* the log_error events the thread published
tFail == tail.fail      \* what raised in the thread: "none", "open", "read"
tBase == tail.base      \* offset at which the thread opened the file
tRagged == tail.ragged  \* the file was seen to end inside a line since then
tSnap == tail.snap      \* length of the file when on_join read its snapshot
evars == <<fstat, errs>>
vars == <<tail_threads, entry, wpc, wpos, rooms, file,
          snapStray, quiet, replaced, sPc, sFile, sN, sSize, sData, sOut,
          tail, lk, fstat, errs>>

Workers == 1 .. Len(entry)
WRoom(w) == entry[w].file
\* The worker is inside "while True" (or about to open the file).
InLoop(w) == wpc[w] \in {"start", "check", "read", "emit"}

\* ------------------------------------------------------- pure helpers
Max(a, b) == IF a >= b THEN a ELSE b

\* Split s at every character of seps; no empty piece after a final
\* separator (the behaviour of str.splitlines and of reading line by line).
RECURSIVE SplitOn(_, _, _, _)
SplitOn(s, seps, cur, acc) ==
    IF s = << >> THEN (IF cur = << >> THEN acc ELSE Append(acc, cur))
    ELSE IF Head(s) \in seps THEN SplitOn(Tail(s), seps, << >>, Append(acc, cur))
    ELSE SplitOn(Tail(s), seps, Append(cur, Head(s)), acc)

\* str.splitlines(): newline and form feed both end a line.
splitlines(s) == SplitOn(s, {"\n", "\f"}, << >>, << >>)

\* Python's lst[-n:]: the last n elements, and the whole list when n = 0 or
\* n >= len(lst).
LastSlice(lst, n) ==
    IF n = 0 \/ n >= Len(lst) THEN lst
    ELSE SubSeq(lst, Len(lst) - n + 1, Len(lst))

\* The loop condition of send_last_lines.
SnapMore(data, n, size) == Len(splitlines(data)) <= n /\ size > 0

\* ------------------------------------------------------------------ Init
CInit ==
    /\ tail_threads = [t \in Topics |-> 0]
    /\ entry = << >>
    /\ wpc = << >>
    /\ wpos = << >>
    /\ rooms = [t \in Topics |-> {}]
    /\ file = [t \in Topics |-> 0]
    /\ snapStray = {}
    /\ quiet = [t \in Topics |-> FALSE]
    /\ replaced = {}

SOff ==
    /\ sPc = "off"
    /\ sFile = << >>
    /\ sN = 0
    /\ sSize = 0
    /\ sData = << >>
    /\ sOut = << >>

TailStart(f) ==
    [pc |-> "start", file |-> f, pos |-> 0, line |-> << >>, out |-> << >>,
     reg |-> TRUE, stop |-> FALSE, errs |-> 0, fail |-> "none",
     base |-> 0, ragged |-> FALSE, snap |-> Len(f)]

\* Threads serving Socket.IO events, numbered below zero, and the threads
\* joins may start, numbered from 1; 0 stands for no thread.
Handlers == {-1, -2}
LWorkers == 1 .. MaxLockWorkers

LkStart ==
    [holder |-> 0,
     pc |-> [th \in Handlers \cup LWorkers |->
               IF th \in Handlers THEN "idle" ELSE "off"],
     reg |-> FALSE, stop |-> FALSE, thread |-> 0]

TOff ==
    /\ tail = [TailStart(<< >>) EXCEPT !.pc = "off", !.reg = FALSE]
    /\ lk = LkStart

\* Every name is a file list_log_files returns and open can read.
EOff ==
    /\ fstat = [t \in Topics |-> "listed"]
    /\ errs = [t \in Topics |-> 0]

Init == CInit /\ SOff /\ TOff /\ EOff

\* -------------------------------------------------------------- handlers
\* send_last_lines(filename, room): the connections its events reach.  The
\* backlog lines, or the error of a failed open, are emitted with room=room;
\* an empty file emits nothing.
SnapshotRecipients(t, members, ok) ==
    IF ok /\ file[t] = 0 THEN {} ELSE members

\* on_join: join_room, the snapshot, then under thread_lock: flag the old
\* dict, install a fresh dict under the same key, start the thread.  The
\* histories snapStray and replaced are left to the specification.
on_join(c, t) ==
    /\ Len(entry) < MaxWorkers
    /\ rooms' = [rooms EXCEPT ![t] = @ \cup {c}]
    /\ LET old == tail_threads[t]
           id == Len(entry) + 1
       IN /\ entry' = Append(IF old # 0 THEN [entry EXCEPT ![old].stop = TRUE]
                                        ELSE entry,
                             [stop |-> FALSE, file |-> t])
          /\ tail_threads' = [tail_threads EXCEPT ![t] = id]
          /\ wpc' = Append(wpc, "start")
          /\ wpos' = Append(wpos, 0)
    /\ quiet' = [quiet EXCEPT ![t] = FALSE]
    /\ UNCHANGED file
    /\ UNCHANGED <<svars, tvars>>

\* on_leave as it would be if the flag were left alone.
on_leave_noflag(c, t) ==
    /\ rooms' = [rooms EXCEPT ![t] = @ \ {c}]
    /\ quiet' = [quiet EXCEPT ![t] =
                   IF c \in rooms[t] /\ rooms'[t] = {} THEN TRUE ELSE @]
    /\ UNCHANGED <<tail_threads, entry, wpc, wpos, file, snapStray, replaced>>
    /\ UNCHANGED <<svars, tvars>>

\* on_leave: leave_room, then flag the room's current dict if there is one.
on_leave(c, t) ==
    /\ rooms' = [rooms EXCEPT ![t] = @ \ {c}]
    /\ entry' = IF tail_threads[t] # 0
                THEN [entry EXCEPT ![tail_threads[t]].stop = TRUE]
                ELSE entry
    /\ quiet' = [quiet EXCEPT ![t] =
                   IF c \in rooms[t] /\ rooms'[t] = {} THEN TRUE ELSE @]
    /\ UNCHANGED <<tail_threads, wpc, wpos, file, snapStray, replaced>>
    /\ UNCHANGED <<svars, tvars>>

\* on_disconnect is "pass"; Socket.IO itself drops the sid from its rooms.
on_disconnect(c) ==
    /\ \E t \in Topics : c \in rooms[t]
    /\ rooms' = [t \in Topics |-> rooms[t] \ {c}]
    /\ UNCHANGED <<tail_threads, entry, wpc, wpos, file, snapStray, quiet, replaced>>
    /\ UNCHANGED <<svars, tvars>>

\* ------------------------------------------------- tail_file_background
\* A step of worker w that touches only its own position and cursor.
WStep(w, pc, pos) ==
    /\ wpc' = [wpc EXCEPT ![w] = pc]
    /\ wpos' = [wpos EXCEPT ![w] = pos]
    /\ UNCHANGED <<tail_threads, entry, rooms, file, snapStray, quiet, replaced>>
    /\ UNCHANGED <<svars, tvars>>

\* open(path) and seek to the end.
worker_open(w) ==
    /\ wpc[w] = "start"
    /\ WStep(w, "check", file[WRoom(w)])

\* open(path) raised: the except branch emits log_error to the room.
worker_open_error(w) ==
    /\ wpc[w] = "start"
    /\ WStep(w, "cleanup", 0)

\* Loop top, under thread_lock: look the room up again and test its flag.
\* break leaves the with block, which closes the file.
worker_check(w) ==
    /\ wpc[w] = "check"
    /\ LET info == tail_threads[WRoom(w)]
       IN IF info = 0 \/ entry[info].stop
          THEN WStep(w, "cleanup", 0)
          ELSE WStep(w, "read", wpos[w])

\* readline() returned a line: advance the cursor, go emit it.
worker_read(w) ==
    /\ wpc[w] = "read"
    /\ wpos[w] < file[WRoom(w)]
    /\ WStep(w, "emit", wpos[w] + 1)

\* readline() returned "": sleep 0.2 s and continue at the loop top.
worker_idle(w) ==
    /\ wpc[w] = "read"
    /\ wpos[w] >= file[WRoom(w)]
    /\ WStep(w, "check", wpos[w])

\* readline() raised: the except branch emits log_error to the room.
worker_read_error(w) ==
    /\ wpc[w] = "read"
    /\ WStep(w, "cleanup", 0)

\* socketio.emit("log_line", ..., room=room) of the line just read.
worker_emit(w) ==
    /\ wpc[w] = "emit"
    /\ WStep(w, "check", wpos[w])

\* worker_cleanup with a finally block that empties the registry.
worker_cleanup_all(w) ==
    /\ wpc[w] = "cleanup"
    /\ tail_threads' = [t \in Topics |-> 0]
    /\ wpc' = [wpc EXCEPT ![w] = "done"]
    /\ UNCHANGED <<entry, wpos, rooms, file, snapStray, quiet, replaced>>
    /\ UNCHANGED <<svars, tvars>>

\* finally, under thread_lock: pop whatever entry the room has.
worker_cleanup(w) ==
    /\ wpc[w] = "cleanup"
    /\ tail_threads' = [tail_threads EXCEPT ![WRoom(w)] = 0]
    /\ wpc' = [wpc EXCEPT ![w] = "done"]
    /\ UNCHANGED <<entry, wpos, rooms, file, snapStray, quiet, replaced>>
    /\ UNCHANGED <<svars, tvars>>

\* Lines appended so far, over all files.
RECURSIVE Appended(_)
Appended(ts) ==
    IF ts = {} THEN 0
    ELSE LET t == CHOOSE x \in ts : TRUE IN file[t] + Appended(ts \ {t})

\* The logging process appends one complete line to a file.
append_line(t) ==
    /\ Appended(Topics) < MaxLines
    /\ file' = [file EXCEPT ![t] = @ + 1]
    /\ UNCHANGED <<tail_threads, entry, wpc, wpos, rooms, snapStray, quiet, replaced>>
    /\ UNCHANGED <<svars, tvars>>

\* The steps a scheduled worker thread takes when its I/O succeeds.
WorkerNext(w) ==
    \/ worker_open(w)
    \/ worker_check(w)
    \/ worker_read(w)
    \/ worker_idle(w)
    \/ worker_emit(w)
    \/ worker_cleanup(w)

\* What a join adds to the histories: the other connections its snapshot
\* events reach, and the worker it replaces while that worker is running
\* and not flagged.
join_history(c, t) ==
    /\ \E ok \in BOOLEAN :
         snapStray' = snapStray \cup (SnapshotRecipients(t, rooms'[t], ok) \ {c})
    /\ LET old == tail_threads[t]
       IN replaced' = IF old # 0 /\ ~entry[old].stop /\ InLoop(old)
                      THEN replaced \cup {old} ELSE replaced

\* Every step but a join.
Others ==
    \/ \E c \in Conns, t \in Topics : on_leave(c, t) /\ UNCHANGED evars
    \/ \E c \in Conns : on_disconnect(c) /\ UNCHANGED evars
    \/ \E w \in Workers : WorkerNext(w) /\ UNCHANGED evars
    \/ \E w \in Workers : worker_open_error(w) /\ UNCHANGED evars
    \/ \E w \in Workers : worker_read_error(w) /\ UNCHANGED evars
    \/ \E t \in Topics : append_line(t) /\ UNCHANGED evars

Next ==
    \/ \E c \in Conns, t \in Topics :
         on_join(c, t) /\ UNCHANGED <<snapStray, replaced, evars>>
    \/ Others

HistNext ==
    \/ \E c \in Conns, t \in Topics :
         on_join(c, t) /\ join_history(c, t) /\ UNCHANGED evars
    \/ Others

Spec == Init /\ [][Next]_vars

\* Every started thread keeps being scheduled; handlers, appends and I/O
\* failures happen or not as the environment decides.
Fairness ==
    \A w \in 1 .. MaxWorkers :
        WF_vars(w \in Workers /\ WorkerNext(w) /\ UNCHANGED evars)

FairSpec == Spec /\ Fairness

HistSpec == Init /\ [][HistNext]_vars

HistFairSpec == HistSpec /\ Fairness

\* ------------------------------------------------ files that are not there
\* "listed": list_log_files returns the name and open succeeds; "gone": open
\* raises; "unlisted": a readable file that list_log_files does not return
\* (a directory component in the name, an extension outside ALLOWED).
FileStatus == {"listed", "gone", "unlisted"}

ErrInit ==
    /\ CInit
    /\ SOff
    /\ TOff
    /\ fstat \in [Topics -> FileStatus]
    /\ errs = [t \in Topics |-> 0]

\* One more log_error event in room t.
ErrorEvent(t) ==
    /\ errs' = [errs EXCEPT ![t] = @ + 1]
    /\ UNCHANGED fstat

\* on_join: send_last_lines opens the file first; its except branch emits
\* log_error to the room. The registry update and the thread follow.
join_errors(t) ==
    IF fstat[t] = "gone" THEN ErrorEvent(t) ELSE UNCHANGED evars

ErrNext ==
    \/ \E c \in Conns, t \in Topics :
         on_join(c, t) /\ join_errors(t) /\ UNCHANGED <<snapStray, replaced>>
    \/ \E c \in Conns, t \in Topics : on_leave(c, t) /\ UNCHANGED evars
    \/ \E c \in Conns : on_disconnect(c) /\ UNCHANGED evars
    \/ \E w \in Workers :
         /\ wpc[w] = "start" => fstat[WRoom(w)] # "gone"
         /\ WorkerNext(w)
         /\ UNCHANGED evars
    \/ \E w \in Workers :
         /\ fstat[WRoom(w)] = "gone"
         /\ worker_open_error(w)
         /\ ErrorEvent(WRoom(w))
    \/ \E w \in Workers : worker_read_error(w) /\ ErrorEvent(WRoom(w))
    \/ \E t \in Topics : append_line(t) /\ UNCHANGED evars

ErrSpec == ErrInit /\ [][ErrNext]_vars

\* ------------------------------------------------------- send_last_lines
\* Every file content of at most MaxFileLen characters.
FileContents == UNION {[1 .. k -> Chars] : k \in 0 .. MaxFileLen}

SnapInit ==
    /\ CInit
    /\ TOff
    /\ EOff
    /\ sPc = "open"
    /\ sFile \in FileContents
    /\ sN \in 0 .. MaxN
    /\ sSize = 0
    /\ sData = << >>
    /\ sOut = << >>

SnapStep ==
    UNCHANGED <<tail_threads, entry, wpc, wpos, rooms, file,
                snapStray, quiet, replaced, sFile, sN, tvars, evars>>

\* fh.seek(0, os.SEEK_END); size = fh.tell(); data = "".
snap_seek_end ==
    /\ sPc = "open"
    /\ sSize' = Len(sFile)
    /\ sData' = << >>
    /\ sPc' = "scan"
    /\ sOut' = sOut
    /\ SnapStep

\* One pass of the while loop: move the frontier back one block and read
\* from there to the end of the file.
snap_read_block ==
    /\ sPc = "scan"
    /\ SnapMore(sData, sN, sSize)
    /\ sSize' = Max(0, sSize - block)
    /\ sData' = SubSeq(sFile, sSize' + 1, Len(sFile))
    /\ UNCHANGED <<sPc, sOut>>
    /\ SnapStep

\* The loop is over: emit data.splitlines()[-n:], each with "\n" added.
snap_emit ==
    /\ sPc = "scan"
    /\ ~SnapMore(sData, sN, sSize)
    /\ LET lines == LastSlice(splitlines(sData), sN)
       IN sOut' = [i \in 1 .. Len(lines) |-> Append(lines[i], "\n")]
    /\ sPc' = "done"
    /\ UNCHANGED <<sSize, sData>>
    /\ SnapStep

SnapNext == snap_seek_end \/ snap_read_block \/ snap_emit

SnapSpec == SnapInit /\ [][SnapNext]_vars

\* ------------------------------------- tail_file_background on characters
\* What the logging process writes in one append: a whole line, the start
\* of a line, or the newline that ends one.
Chunks == {<<"a", "\n">>, <<"b", "\n">>, <<"a">>, <<"\n">>}

\* The file ends inside a line.
EndsRagged(f) == f # << >> /\ f[Len(f)] # "\n"

\* fh.readline() at offset pos: up to and including the next newline, or up
\* to the end of the file when there is none; "" at the end of the file.
ReadLine(f, pos) ==
    LET ends == {i \in pos + 1 .. Len(f) : f[i] = "\n"}
        stop == IF ends = {} THEN Len(f)
                ELSE CHOOSE i \in ends : \A j \in ends : i <= j
    IN SubSeq(f, pos + 1, stop)

TailInit ==
    /\ CInit
    /\ SOff
    /\ EOff
    /\ \E f \in {<< >>, <<"a", "\n">>, <<"a">>} : tail = TailStart(f)
    /\ lk = LkStart

TailFrame ==
    UNCHANGED <<tail_threads, entry, wpc, wpos, rooms, file,
                snapStray, quiet, replaced, svars, evars, lk>>

\* open(path) and seek to the end.
tail_open ==
    /\ tPc = "start"
    /\ tail' = [tail EXCEPT !.pc = "check", !.pos = Len(tFile),
                            !.base = Len(tFile), !.ragged = EndsRagged(tFile)]
    /\ TailFrame

\* Loop top, under thread_lock: break when the entry is gone or flagged.
tail_check ==
    /\ tPc = "check"
    /\ tail' = [tail EXCEPT !.pc = IF ~tReg \/ tStop THEN "cleanup" ELSE "read"]
    /\ TailFrame

\* tail_read with a cursor that jumps to the end of the file.
tail_read_skip ==
    /\ tPc = "read"
    /\ LET line == ReadLine(tFile, tPos)
       IN tail' = [tail EXCEPT !.line = line, !.pos = Len(tFile),
                               !.pc = IF line = << >> THEN "check" ELSE "emit"]
    /\ TailFrame

\* line = fh.readline(); "" sleeps and continues at the loop top.
tail_read ==
    /\ tPc = "read"
    /\ LET line == ReadLine(tFile, tPos)
       IN tail' = [tail EXCEPT !.line = line, !.pos = tPos + Len(line),
                               !.pc = IF line = << >> THEN "check" ELSE "emit"]
    /\ TailFrame

\* socketio.emit("log_line", {"line": line}, room=room).
tail_emit ==
    /\ tPc = "emit"
    /\ tail' = [tail EXCEPT !.out = Append(tOut, tLine), !.pc = "check"]
    /\ TailFrame

\* finally, under thread_lock: pop the room's entry; the thread ends.
tail_cleanup ==
    /\ tPc = "cleanup"
    /\ tail' = [tail EXCEPT !.pc = "done", !.reg = FALSE, !.stop = FALSE]
    /\ TailFrame

\* The except branch: one log_error event, then the finally block.
TailError(kind) ==
    /\ tail' = [tail EXCEPT !.pc = "cleanup", !.errs = tErrs + 1, !.fail = kind]
    /\ TailFrame

\* open(path) raised.
tail_open_error ==
    /\ tPc = "start"
    /\ TailError("open")

\* tail_read_error with a thread that reports the error and polls on.
tail_read_error_retry ==
    /\ tPc = "read"
    /\ tail' = [tail EXCEPT !.pc = "check", !.errs = 1, !.fail = "read"]
    /\ TailFrame

\* fh.readline() raised.
tail_read_error ==
    /\ tPc = "read"
    /\ TailError("read")

\* on_leave: the room's entry, if there is one, is flagged.
tail_stop ==
    /\ tReg /\ ~tStop
    /\ tail' = [tail EXCEPT !.stop = TRUE]
    /\ TailFrame

\* on_join: the room gets a fresh entry, not flagged.
tail_join ==
    /\ ~tReg \/ tStop
    /\ tail' = [tail EXCEPT !.reg = TRUE, !.stop = FALSE]
    /\ TailFrame

\* The finally block of another thread of the room pops the entry.
tail_pop ==
    /\ tReg
    /\ tail' = [tail EXCEPT !.reg = FALSE, !.stop = FALSE]
    /\ TailFrame

\* The logging process appends a chunk to the file.
tail_append(chunk) ==
    /\ Len(tFile) + Len(chunk) <= MaxTailLen
    /\ tail' = [tail EXCEPT !.file = tFile \o chunk,
                            !.ragged = IF tPc = "start" THEN FALSE
                                       ELSE tRagged \/ EndsRagged(tFile \o chunk)]
    /\ TailFrame

\* The steps of the scheduled thread.
TailThread ==
    \/ tail_open
    \/ tail_open_error
    \/ tail_check
    \/ tail_read
    \/ tail_read_error
    \/ tail_emit
    \/ tail_cleanup

TailNext ==
    \/ TailThread
    \/ tail_stop
    \/ tail_join
    \/ tail_pop
    \/ \E chunk \in Chunks : tail_append(chunk)

TailSpec == TailInit /\ [][TailNext]_vars

FairTailSpec == TailSpec /\ WF_vars(TailThread)

\* --------------------------------------------- thread_lock, by statement
\* One room. lk.pc[th] is the statement thread th executes next, lk.holder
\* the thread inside "with thread_lock", lk.reg whether tail_threads has
\* the room, lk.stop and lk.thread the flag and the thread of the dict found
\* there.
LockInit ==
    /\ CInit
    /\ SOff
    /\ EOff
    /\ tail = [TailStart(<< >>) EXCEPT !.pc = "off", !.reg = FALSE]
    /\ lk = LkStart

LkFrame ==
    UNCHANGED <<tail_threads, entry, wpc, wpos, rooms, file,
                snapStray, quiet, replaced, svars, evars, tail>>

\* Thread th moves from statement a to statement b.
LkGo(th, a, b) ==
    /\ lk.pc[th] = a
    /\ lk' = [lk EXCEPT !.pc[th] = b]
    /\ LkFrame

\* "with thread_lock:" entered: blocks while another thread is inside.
LkAcquire(th, a, b) ==
    /\ lk.pc[th] = a
    /\ lk.holder = 0
    /\ lk' = [lk EXCEPT !.pc[th] = b, !.holder = th]
    /\ LkFrame

\* The with block is left.
LkRelease(th, a, b) ==
    /\ lk.pc[th] = a
    /\ lk' = [lk EXCEPT !.pc[th] = b, !.holder = 0]
    /\ LkFrame

JoinPcs == {"j_room", "j_snap", "j_lock", "j_replace", "j_start", "j_unlock"}

\* A join event arrives; a thread is left for it to start.
lk_join_event(h) ==
    /\ Cardinality({w \in LWorkers : lk.pc[w] = "off"})
         > Cardinality({g \in Handlers : lk.pc[g] \in JoinPcs})
    /\ LkGo(h, "idle", "j_room")

\* join_room(room); emit("joined").
lk_join_room(h) == LkGo(h, "j_room", "j_snap")

\* send_last_lines(filename, room, n=200).
lk_join_snapshot(h) == LkGo(h, "j_snap", "j_lock")

lk_join_acquire(h) == LkAcquire(h, "j_lock", "j_replace")

\* old = tail_threads.get(room); old["stop"] = True; tail_threads[room] =
\* fresh dict.
lk_join_replace(h) ==
    /\ lk.pc[h] = "j_replace"
    /\ lk' = [lk EXCEPT !.pc[h] = "j_start", !.reg = TRUE, !.stop = FALSE,
                        !.thread = 0]
    /\ LkFrame

\* tail_threads[room]["thread"] = thread; thread.start().
lk_join_start(h) ==
    /\ lk.pc[h] = "j_start"
    /\ \E w \in LWorkers :
         /\ lk.pc[w] = "off"
         /\ lk' = [lk EXCEPT !.pc[h] = "j_unlock", !.pc[w] = "open",
                             !.thread = w]
    /\ LkFrame

lk_join_release(h) == LkRelease(h, "j_unlock", "idle")

\* A leave event arrives.
lk_leave_event(h) == LkGo(h, "idle", "l_room")

\* leave_room(room).
lk_leave_room(h) == LkGo(h, "l_room", "l_lock")

lk_leave_acquire(h) == LkAcquire(h, "l_lock", "l_flag")

\* info = tail_threads.get(room); if info: info["stop"] = True.
lk_leave_flag(h) ==
    /\ lk.pc[h] = "l_flag"
    /\ lk' = [lk EXCEPT !.pc[h] = "l_unlock", !.stop = lk.reg]
    /\ LkFrame

lk_leave_release(h) == LkRelease(h, "l_unlock", "idle")

\* open(path); fh.seek(0, os.SEEK_END); a raising open goes to the except
\* branch.
lk_open(w) ==
    \E b \in {"w_lock", "err"} : LkGo(w, "open", b)

lk_check_acquire(w) == LkAcquire(w, "w_lock", "w_get")

\* lk_check with the read inside the with block.
lk_check_keep(w) ==
    /\ lk.pc[w] = "w_get"
    /\ lk' = [lk EXCEPT !.pc[w] = IF ~lk.reg \/ lk.stop THEN "w_break"
                                  ELSE "read"]
    /\ LkFrame

\* info = tail_threads.get(room); if not info or info.get("stop"): break.
lk_check(w) ==
    /\ lk.pc[w] = "w_get"
    /\ lk' = [lk EXCEPT !.pc[w] = IF ~lk.reg \/ lk.stop THEN "w_break"
                                  ELSE "w_unlock"]
    /\ LkFrame

\* The check passed: the with block ends before the read.
lk_check_release(w) == LkRelease(w, "w_unlock", "read")

\* break leaves the with block on its way to the finally block.
lk_break_release(w) == LkRelease(w, "w_break", "f_lock")

\* line = fh.readline(): nothing, a line, or an exception.
lk_read(w) ==
    \E b \in {"sleep", "emit", "err"} : LkGo(w, "read", b)

\* time.sleep(0.2); continue.
lk_sleep(w) == LkGo(w, "sleep", "w_lock")

\* socketio.emit("log_line", ...).
lk_emit(w) == LkGo(w, "emit", "w_lock")

\* except: socketio.emit("log_error", ...).
lk_error(w) == LkGo(w, "err", "f_lock")

lk_cleanup_acquire(w) == LkAcquire(w, "f_lock", "f_pop")

\* lk_cleanup_pop with a finally block that leaves the registry alone.
lk_cleanup_skip(w) == LkGo(w, "f_pop", "f_unlock")

\* if room in tail_threads: tail_threads.pop(room, None).
lk_cleanup_pop(w) ==
    /\ lk.pc[w] = "f_pop"
    /\ lk' = [lk EXCEPT !.pc[w] = "f_unlock", !.reg = FALSE, !.stop = FALSE,
                        !.thread = 0]
    /\ LkFrame

lk_cleanup_release(w) == LkRelease(w, "f_unlock", "done")

LockNext ==
    \/ \E h \in Handlers : lk_join_event(h)
    \/ \E h \in Handlers : lk_join_room(h)
    \/ \E h \in Handlers : lk_join_snapshot(h)
    \/ \E h \in Handlers : lk_join_acquire(h)
    \/ \E h \in Handlers : lk_join_replace(h)
    \/ \E h \in Handlers : lk_join_start(h)
    \/ \E h \in Handlers : lk_join_release(h)
    \/ \E h \in Handlers : lk_leave_event(h)
    \/ \E h \in Handlers : lk_leave_room(h)
    \/ \E h \in Handlers : lk_leave_acquire(h)
    \/ \E h \in Handlers : lk_leave_flag(h)
    \/ \E h \in Handlers : lk_leave_release(h)
    \/ \E w \in LWorkers : lk_open(w)
    \/ \E w \in LWorkers : lk_check_acquire(w)
    \/ \E w \in LWorkers : lk_check(w)
    \/ \E w \in LWorkers : lk_check_release(w)
    \/ \E w \in LWorkers : lk_break_release(w)
    \/ \E w \in LWorkers : lk_read(w)
    \/ \E w \in LWorkers : lk_sleep(w)
    \/ \E w \in LWorkers : lk_emit(w)
    \/ \E w \in LWorkers : lk_error(w)
    \/ \E w \in LWorkers : lk_cleanup_acquire(w)
    \/ \E w \in LWorkers : lk_cleanup_pop(w)
    \/ \E w \in LWorkers : lk_cleanup_release(w)

LockSpec == LockInit /\ [][LockNext]_vars

\* ================================================================ claims
\* A worker of room t exits at its next loop-top check: the room has no
\* entry, or its entry is flagged.
Stopped(t) == tail_threads[t] = 0 \/ entry[tail_threads[t]].stop

\* Started, not exited, and would pass its next loop-top check.
NonStopped(w) == InLoop(w) /\ ~Stopped(WRoom(w))

WorkersOf(t) == {w \in Workers : WRoom(w) = t}

\* C1: each topic has at most one non-stopped tail worker, in every
\* reachable state.
C1_OneWorkerPerTopic ==
    \A t \in Topics : Cardinality({w \in WorkersOf(t) : NonStopped(w)}) <= 1

\* C2: a worker replaced by a second join on its topic, with no leave in
\* between, publishes no line event after the replacement.
C2_ReplacedWorkerSilent ==
    [][\A w \in replaced : ~(wpc[w] = "emit" /\ wpc'[w] = "check")]_vars

\* C3: under fair scheduling a worker replaced by a join sees the stop at a
\* later loop-top check and terminates.
C3_ReplacedWorkerTerminates ==
    \A w \in 1 .. MaxWorkers :
        (w \in replaced) ~> (w \in Workers /\ wpc[w] = "done")

\* C4: the exit cleanup of an earlier worker never removes the registry
\* entry of the worker a later join started.
C4_CleanupKeepsNewEntry ==
    [][\A w \in Workers :
          (wpc[w] = "cleanup" /\ wpc'[w] = "done" /\ tail_threads[WRoom(w)] # w)
              => tail_threads'[WRoom(w)] = tail_threads[WRoom(w)]]_vars

\* C5: a leave that leaves other subscribers in the topic does not mark
\* the topic's worker stopped.
C5_LeaveStopsOnlyWhenLast ==
    [][\A t \in Topics :
          (rooms'[t] # rooms[t] /\ rooms'[t] \subseteq rooms[t] /\ rooms'[t] # {}
             /\ tail_threads[t] # 0)
              => entry'[tail_threads[t]].stop = entry[tail_threads[t]].stop]_vars

\* C6: once the last subscriber of a topic has left and no join on the
\* topic has followed, every worker of the topic exits at its next loop-top
\* check, and a line it had already read is published before that check and
\* not after it.
C6_QuietWorkersExit ==
    [][\A w \in Workers :
          quiet[WRoom(w)] =>
              /\ (wpc[w] = "check" /\ wpc'[w] # "check") => wpc'[w] = "cleanup"
              /\ (wpc[w] = "emit" /\ wpc'[w] # "emit") => wpc'[w] = "check"
              /\ (wpc[w] \in {"cleanup", "done"}) => wpc'[w] \in {"cleanup", "done"}]_vars

\* C6 witness: a worker that ran in a room has left its loop after the
\* room's last subscriber left.
C6_Witness ==
    \E w \in Workers :
        /\ quiet[WRoom(w)]
        /\ tail_threads[WRoom(w)] = w
        /\ entry[w].stop
        /\ wpc[w] = "cleanup"

\* Beside C6, under FairSpec: the workers of such a topic do all finish,
\* unless a join on the topic comes first.
QuietWorkersFinish ==
    \A t \in Topics :
        quiet[t] ~> (~quiet[t] \/ \A w \in WorkersOf(t) : wpc[w] = "done")

\* C7: a disconnect of a topic's only subscriber marks the topic's worker
\* stopped, as a leave does.
C7_DisconnectStopsWorker ==
    [][\A c \in Conns, t \in Topics :
          (on_disconnect(c) /\ rooms[t] = {c} /\ tail_threads[t] # 0)
              => entry'[tail_threads[t]].stop]_vars

\* C8: a connection is a member of at most one tail topic.
C8_OneTopicPerConnection ==
    \A c \in Conns : Cardinality({t \in Topics : c \in rooms[t]}) <= 1

\* C9: the snapshot events of a join reach the joining connection only.
C9_SnapshotOnlyToJoiner == snapStray = {}

\* The lines of a file as a reader sees them: pieces ended by a newline,
\* and a last piece without one.
FileLines(s) == SplitOn(s, {"\n"}, << >>, << >>)

\* The last n elements of lst, all of them when it has at most n.
LastN(lst, n) ==
    IF n >= Len(lst) THEN lst ELSE SubSeq(lst, Len(lst) - n + 1, Len(lst))

WithNewlines(lst) == [i \in 1 .. Len(lst) |-> Append(lst[i], "\n")]

\* C10: for every file content and every n >= 1 the snapshot emits the
\* file's lines in order when there are at most n, and exactly its last n
\* lines in order when there are more.
C10_SnapshotLastLines ==
    (sPc = "done" /\ sN >= 1) => sOut = WithNewlines(LastN(FileLines(sFile), sN))

\* The same over the files that hold no form feed: there the backward
\* block scan is right.
SnapshotLastLinesPlain ==
    (sPc = "done" /\ sN >= 1 /\ \A i \in 1 .. Len(sFile) : sFile[i] # "\f")
        => sOut = WithNewlines(LastN(FileLines(sFile), sN))


\* C11: a snapshot requested with n = 0 emits no line event, whatever the
\* file holds.
C11_ZeroLinesEmpty == (sPc = "done" /\ sN = 0) => sOut = << >>


\* C12: every line event the tail worker publishes ends with the line
\* delimiter.
C12_NoPartialLine ==
    \A i \in 1 .. Len(tOut) : tOut[i][Len(tOut[i])] = "\n"


RECURSIVE Flatten(_)
Flatten(ss) == IF ss = << >> THEN << >> ELSE Head(ss) \o Flatten(Tail(ss))

\* One complete line: characters ended by the only newline.
IsLine(s) ==
    /\ s # << >>
    /\ \A i \in 1 .. Len(s) : (s[i] = "\n") <=> (i = Len(s))

\* The events published so far, with the one read and about to be emitted.
TailEvents == tOut \o (IF tPc = "emit" THEN <<tLine>> ELSE << >>)

TailCovered ==
    tPc \notin {"off", "start"} =>
        /\ tBase <= tPos /\ tPos <= Len(tFile)
        /\ Flatten(TailEvents) = SubSeq(tFile, tBase + 1, tPos)
        /\ ~tRagged => \A i \in 1 .. Len(TailEvents) : IsLine(TailEvents[i])

\* C13: with one worker and only complete lines appended after it opened
\* the file, the events published are exactly the lines between the offset
\* of the open and the cursor, each once and in order; the cursor never
\* moves backwards; and unless the worker leaves its loop (entry flagged
\* or removed, or a read failing) every appended character is eventually
\* published.
C13_TailExactlyOnce ==
    /\ []TailCovered
    /\ [][tPos' >= tPos]_vars
    /\ \A n \in 1 .. MaxTailLen + 1 :
          (tPc \in {"check", "read", "emit"} /\ tBase < n /\ n <= Len(tFile))
              ~> (tPc \in {"cleanup", "done"}
                  \/ tBase + Len(Flatten(tOut)) >= n)

C13_Witness ==
    /\ ~tRagged /\ ~tStop /\ tReg /\ tFail = "none"
    /\ Len(tOut) = 2 /\ tOut[1] # tOut[2]
    /\ tPos = Len(tFile)


\* C16: a read failure in the tail worker publishes exactly one error event;
\* the failing worker publishes nothing afterwards, terminates, and its exit
\* cleanup leaves the room without a registry entry.
C16_ReadErrorFatal ==
    /\ [](tFail = "read" => tErrs = 1 /\ tPc \in {"cleanup", "done"})
    /\ [][tFail = "read" => tOut' = tOut /\ tErrs' = tErrs]_vars
    /\ [][tPc = "cleanup" /\ tPc' = "done" => ~tReg']_vars
    /\ (tFail = "read") ~> (tPc = "done")

C16_Witness ==
    /\ tFail = "read" /\ tPc = "done"
    /\ tErrs = 1 /\ Len(tOut) >= 1
    /\ tReg /\ ~tStop


\* C14: for a file that cannot be opened, the error events published to the
\* room are at most one per join, no worker of the room reads or emits a
\* line, and once the workers of the room have ended the room has no
\* registry entry.
C14_MissingFileOneError ==
    \A t \in Topics : fstat[t] = "gone" =>
        /\ errs[t] <= Cardinality(WorkersOf(t))
        /\ \A w \in WorkersOf(t) : wpc[w] \notin {"check", "read", "emit"}
        /\ (\A w \in WorkersOf(t) : wpc[w] = "done") => tail_threads[t] = 0

\* C15: a name outside the eligible set never gets a registry entry, a
\* worker thread or a room member.
C15_IneligibleRejected ==
    \A t \in Topics : fstat[t] = "unlisted" =>
        /\ tail_threads[t] = 0
        /\ WorkersOf(t) = {}
        /\ rooms[t] = {}


\* The step changes the registry slot of topic t, or the flag, position or
\* cursor of one of its workers, or starts a worker for it.
TopicChanged(t) ==
    \/ tail_threads'[t] # tail_threads[t]
    \/ \E w \in Workers :
         /\ WRoom(w) = t
         /\ \/ entry'[w].stop # entry[w].stop
            \/ wpc'[w] # wpc[w]
            \/ wpos'[w] # wpos[w]
    \/ Len(entry') > Len(entry) /\ entry'[Len(entry')].file = t

\* C17: no step changes the registry slot, a stop flag or a worker of more
\* than one topic: an error, a stop, a cleanup, a join or a leave on one
\* topic leaves every other topic as it was.
C17_TopicsIsolated ==
    [][\/ <<tail_threads, entry, wpc, wpos>>' = <<tail_threads, entry, wpc, wpos>>
       \/ \A x, y \in Topics :
            x # y => ~(TopicChanged(x) /\ TopicChanged(y))]_vars

C17_Witness ==
    \E x, y \in Topics :
        /\ x # y
        /\ tail_threads[x] = 0
        /\ \E w \in WorkersOf(x) : wpc[w] = "done"
        /\ tail_threads[y] # 0
        /\ ~entry[tail_threads[y]].stop
        /\ wpc[tail_threads[y]] = "read"


\* Statements that read a file, sleep or publish an event.
IoPcs == {"j_room", "j_snap", "l_room", "open", "read", "sleep", "emit", "err"}

\* Statements that read or write tail_threads or an entry dict.
RegistryPcs == {"j_replace", "l_flag", "w_get", "f_pop"}

\* C18: a thread about to read the file, sleep or publish does not hold
\* thread_lock, and a thread about to read or write the registry (or to
\* start the thread it registered) holds it.
C18_NoIoUnderLock ==
    \A th \in Handlers \cup LWorkers :
        /\ lk.pc[th] \in IoPcs => lk.holder # th
        /\ lk.pc[th] \in RegistryPcs \cup {"j_start"} => lk.holder = th

C18_Witness ==
    \E h \in Handlers, w \in LWorkers :
        /\ lk.holder = h /\ lk.pc[h] = "j_replace" /\ lk.reg
        /\ lk.pc[w] = "read"


\* C19: every character appended to the file after the join's snapshot was
\* read is eventually published by the worker the join started, unless that
\* worker leaves its loop.
C19_NoLineLost ==
    \A n \in 1 .. MaxTailLen :
        (tPc # "off" /\ tSnap < n /\ n <= Len(tFile))
            ~> \/ tPc \in {"cleanup", "done"}
               \/ /\ tPc # "start"
                  /\ tBase < n
                  /\ n <= tBase + Len(Flatten(tOut))


\* C20: whenever thread_lock is free, the room's registry entry refers to a
\* thread that was started and has not finished its exit cleanup; and a
\* worker that has done its cleanup pop leaves the room without entry.
C20_NoOrphanEntry ==
    /\ (lk.holder = 0 /\ lk.reg) =>
           /\ lk.thread \in LWorkers
           /\ lk.pc[lk.thread] \notin {"off", "done"}
    /\ \A w \in LWorkers : lk.pc[w] = "f_unlock" => ~lk.reg

C20_Witness ==
    \E w, v \in LWorkers :
        /\ lk.holder = 0 /\ lk.reg /\ lk.thread = w
        /\ lk.pc[w] = "read"
        /\ lk.pc[v] = "done"

====
